---------------------------- MODULE Spec2Model ----------------------------
(***************************************************************************)
(* Blackjack Probability Teacher (src/casino.py): the shoe, the hand       *)
(* valuation, the Hi-Lo counter, the Monte Carlo outcome simulator, the    *)
(* basic-strategy advisor and the key handlers of the game loop.           *)
(*                                                                         *)
(* Spec      the game loop: key handlers interleaved with the simulator    *)
(*           that every rendered frame runs.                               *)
(* SpecUnit  single calls of the pure operations on enumerated inputs.     *)
(*                                                                         *)
(* A key handler is one action, its draw_card calls included; draws keeps  *)
(* what each of those calls saw and did.  calculate_detailed_probability   *)
(* is a sequence of steps (sim_pc), because its dealer loop may not end.   *)
(* random.shuffle and random.choice are choices among the outcomes named   *)
(* by MaxMul, MaxOff and MaxPick.  The suits are named S, H, D, C.  The    *)
(* float true_count is kept as the exact fraction it approximates.         *)
(***************************************************************************)
EXTENDS Integers, Sequences, FiniteSets

VARIABLES
    deck,            \* self.deck: undrawn cards, drawn from the end
    player_hand,     \* self.player_hand
    dealer_hand,     \* self.dealer_hand
    game_state,      \* self.game_state
    credits,         \* self.credits
    bet,             \* self.bet
    running_count,   \* self.running_count
    true_count,      \* self.true_count, the exact fraction <<num, den>>
    sim_pc,          \* position inside calculate_detailed_probability
    trial,           \* trials completed by the running simulation
    temp_hand,       \* trial-local copy of the player hand
    temp_dealer,     \* trial-local copy of the dealer hand
    available_cards, \* the list the last hypothetical draw chose from
    outcomes,        \* tallies of the running simulation
    probs,           \* value returned by calculate_detailed_probability to the frame
    draws,           \* record of the draw_card calls of the last handler
    probe            \* call and result of one operation (SpecUnit)

vars == <<deck, player_hand, dealer_hand, game_state, credits, bet,
          running_count, true_count, sim_pc, trial, temp_hand, temp_dealer,
          available_cards, outcomes, probs, draws, probe>>

game == <<deck, player_hand, dealer_hand, game_state, credits, bet,
          running_count, true_count, draws>>

sim == <<sim_pc, trial, temp_hand, temp_dealer, available_cards, outcomes,
         probs>>

---------------------------------------------------------------------------
(* Bounds of the model.                                                    *)

\* decks per shoe (create_deck's default is 6)
NumDecks == 1
\* Monte Carlo trials per call (the source runs 1000)
Simulations == 1
\* shuffles are the maps i -> a*i + b of the positions, a <= MaxMul, b <= MaxOff
MaxMul == 3
MaxOff == 0
\* credits stay within MaxSwing bets of the starting credits
MaxSwing == 1
\* random.choice returns one of the first MaxPick cards of its list
MaxPick == 2
\* the bet is not raised above MaxBet
MaxBet == 200
\* longest hand handed to a single call in SpecUnit
MaxHandLen == 3

---------------------------------------------------------------------------
(* Cards.                                                                  *)

Ranks == <<"2", "3", "4", "5", "6", "7", "8", "9", "10", "J", "Q", "K", "A">>

Suits == <<"S", "H", "D", "C">>

RankInt == [r \in {"2", "3", "4", "5", "6", "7", "8", "9", "10"} |->
              CASE r = "2" -> 2 [] r = "3" -> 3 [] r = "4" -> 4 [] r = "5" -> 5
                [] r = "6" -> 6 [] r = "7" -> 7 [] r = "8" -> 8 [] r = "9" -> 9
                [] r = "10" -> 10]

RankValue(rank) ==
    IF rank = "A" THEN 11
    ELSE IF rank \in {"K", "Q", "J"} THEN 10
    ELSE RankInt[rank]

Card(rank, suit) == [rank |-> rank, suit |-> suit, value |-> RankValue(rank)]

CardsPerDeck == 52
StartCredits == 1000
StartBet == 100
BetStep == 100
DealerStandsAt == 17

Range(s) == {s[i] : i \in DOMAIN s}

RECURSIVE Gcd(_, _)
Gcd(x, y) == IF y = 0 THEN x ELSE Gcd(y, x % y)

\* random.shuffle: one of the permutations of the positions
Shuffle(s, a, b) ==
    [i \in 1..Len(s) |-> s[((a * (i - 1) + b) % Len(s)) + 1]]

ShuffleMuls(n) == {a \in 1..MaxMul : Gcd(a, n) = 1}

ShuffleOffs(n) == {b \in 0..MaxOff : b < n \/ b = 0}

\* the cards create_deck appends, in the order of its three loops
FreshCards(num_decks) ==
    [k \in 1..(num_decks * Len(Suits) * Len(Ranks)) |->
        Card(Ranks[((k - 1) % Len(Ranks)) + 1],
             Suits[(((k - 1) \div Len(Ranks)) % Len(Suits)) + 1])]

create_deck(d, num_decks, a, b) ==
    LET filled == d \o FreshCards(num_decks)
    IN  IF filled = <<>> THEN filled ELSE Shuffle(filled, a, b)

ShoeSize == NumDecks * Len(Suits) * Len(Ranks)

---------------------------------------------------------------------------
(* Hand valuation.                                                         *)

RECURSIVE NonAceSum(_)
NonAceSum(hand) ==
    IF hand = <<>> THEN 0
    ELSE (IF Head(hand).rank = "A" THEN 0 ELSE Head(hand).value)
         + NonAceSum(Tail(hand))

AceCount(hand) == Cardinality({i \in DOMAIN hand : hand[i].rank = "A"})

RECURSIVE AddAces(_, _)
AddAces(value, aces) ==
    IF aces = 0 THEN value
    ELSE AddAces(IF value + 11 <= 21 THEN value + 11 ELSE value + 1, aces - 1)

calculate_hand_value(hand) == AddAces(NonAceSum(hand), AceCount(hand))

---------------------------------------------------------------------------
(* Strategy advisor.                                                       *)

get_optimal_action(ph, dh) ==
    LET player_value == calculate_hand_value(ph)
        dealer_up_card == IF dh # <<>> THEN dh[1].value ELSE 0
        has_ace == \E i \in DOMAIN ph : ph[i].rank = "A"
        is_pair == Len(ph) = 2 /\ ph[1].rank = ph[2].rank
    IN  IF player_value > 21 THEN "Bust"
        ELSE IF player_value = 21 THEN "Stand"
        ELSE IF has_ace THEN
            IF player_value >= 19 THEN "Stand"
            ELSE IF player_value = 18
                 THEN (IF dealer_up_card < 9 THEN "Stand" ELSE "Hit")
            ELSE "Hit"
        ELSE IF is_pair THEN
            IF ph[1].value \in {8, 11} THEN "Split"
            ELSE IF ph[1].value = 10 THEN "Stand"
            ELSE IF ph[1].value <= 7 THEN "Hit"
            ELSE "Consider odds"
        ELSE
            IF player_value >= 17 THEN "Stand"
            ELSE IF player_value <= 11 THEN "Hit"
            ELSE IF 12 <= player_value /\ player_value <= 16
                 THEN (IF dealer_up_card < 7 THEN "Stand" ELSE "Hit")
            ELSE "Consider odds"

---------------------------------------------------------------------------
(* Hi-Lo counter and the shoe.                                             *)

Zero == <<0, 1>>

\* mutant: the high cards are tested with == 10, so an Ace is not counted
update_card_counting_AceUncounted(card, rc, deck_len) ==
    LET r == IF card.value >= 2 /\ card.value <= 6 THEN rc + 1
             ELSE IF card.value = 10 THEN rc - 1
             ELSE rc
    IN  [running_count |-> r,
         true_count |-> IF deck_len > 0 THEN <<r * CardsPerDeck, deck_len>>
                        ELSE Zero]

\* mutant: the low band ends at 5
update_card_counting_LowTo5(card, rc, deck_len) ==
    LET r == IF card.value >= 2 /\ card.value < 6 THEN rc + 1
             ELSE IF card.value >= 10 \/ card.rank = "A" THEN rc - 1
             ELSE rc
    IN  [running_count |-> r,
         true_count |-> IF deck_len > 0 THEN <<r * CardsPerDeck, deck_len>>
                        ELSE Zero]

\* running_count / (len(deck) / 52) as the fraction <<num, den>>
update_card_counting(card, rc, deck_len) ==
    LET r == IF card.value >= 2 /\ card.value <= 6 THEN rc + 1
             ELSE IF card.value >= 10 \/ card.rank = "A" THEN rc - 1
             ELSE rc
    IN  [running_count |-> r,
         true_count |-> IF deck_len > 0 THEN <<r * CardsPerDeck, deck_len>>
                        ELSE Zero]

\* mutant: the card is read from the end of the deck and left there
draw_card_NoPop(s, for_player, a, b) ==
    LET d0 == IF s.deck = <<>> THEN create_deck(s.deck, NumDecks, a, b)
              ELSE s.deck
        card == d0[Len(d0)]
        d1 == d0
        cnt == update_card_counting(card, s.running_count, Len(d1))
    IN  [deck |-> d1,
         player_hand |-> IF for_player THEN Append(s.player_hand, card)
                         ELSE s.player_hand,
         dealer_hand |-> IF for_player THEN s.dealer_hand
                         ELSE Append(s.dealer_hand, card),
         running_count |-> cnt.running_count,
         true_count |-> cnt.true_count,
         draws |-> Append(s.draws,
                     [card |-> card,
                      for_player |-> for_player,
                      recreated |-> (s.deck = <<>>),
                      size_before |-> Len(s.deck),
                      size_created |-> Len(d0),
                      size_after |-> Len(d1),
                      count_before |-> <<s.running_count, s.true_count>>,
                      count_after |-> cnt.running_count])]

\* s: the fields draw_card reads and writes; a, b: the shuffle a rebuild takes
draw_card(s, for_player, a, b) ==
    LET d0 == IF s.deck = <<>> THEN create_deck(s.deck, NumDecks, a, b)
              ELSE s.deck
        card == d0[Len(d0)]
        d1 == SubSeq(d0, 1, Len(d0) - 1)
        cnt == update_card_counting(card, s.running_count, Len(d1))
    IN  [deck |-> d1,
         player_hand |-> IF for_player THEN Append(s.player_hand, card)
                         ELSE s.player_hand,
         dealer_hand |-> IF for_player THEN s.dealer_hand
                         ELSE Append(s.dealer_hand, card),
         running_count |-> cnt.running_count,
         true_count |-> cnt.true_count,
         draws |-> Append(s.draws,
                     [card |-> card,
                      for_player |-> for_player,
                      recreated |-> (s.deck = <<>>),
                      size_before |-> Len(s.deck),
                      size_created |-> Len(d0),
                      size_after |-> Len(d1),
                      count_before |-> <<s.running_count, s.true_count>>,
                      count_after |-> cnt.running_count])]

Fields ==
    [deck |-> deck, player_hand |-> player_hand, dealer_hand |-> dealer_hand,
     running_count |-> running_count, true_count |-> true_count,
     draws |-> <<>>]

Store(s) ==
    /\ deck' = s.deck
    /\ player_hand' = s.player_hand
    /\ dealer_hand' = s.dealer_hand
    /\ running_count' = s.running_count
    /\ true_count' = s.true_count
    /\ draws' = s.draws

\* the stand handler's loop: the dealer draws to 17
RECURSIVE dealer_turn(_, _, _)
dealer_turn(s, a, b) ==
    IF calculate_hand_value(s.dealer_hand) < DealerStandsAt
    THEN dealer_turn(draw_card(s, FALSE, a, b), a, b)
    ELSE s

Idle == sim_pc = "idle"

InWindow(c) ==
    /\ c >= StartCredits - MaxSwing * bet
    /\ c <= StartCredits + MaxSwing * bet

Min(x, y) == IF x < y THEN x ELSE y
Max(x, y) == IF x > y THEN x ELSE y

---------------------------------------------------------------------------
(* Key handlers of run().                                                  *)

KeySpace ==
    /\ Idle
    /\ game_state \in {"betting", "game_over"}
    /\ credits >= bet
    /\ \E a \in ShuffleMuls(ShoeSize), b \in ShuffleOffs(ShoeSize) :
          LET s0 == [Fields EXCEPT !.player_hand = <<>>, !.dealer_hand = <<>>]
              s1 == draw_card(s0, TRUE, a, b)
              s2 == draw_card(s1, TRUE, a, b)
              s3 == draw_card(s2, FALSE, a, b)
          IN  Store(s3)
    /\ game_state' = "playing"
    /\ UNCHANGED <<credits, bet, sim, probe>>

KeyUp ==
    /\ Idle
    /\ game_state = "betting"
    /\ bet' = Min(bet + BetStep, credits)
    /\ bet' <= MaxBet
    /\ UNCHANGED <<deck, player_hand, dealer_hand, game_state, credits,
                   running_count, true_count, draws, sim, probe>>

KeyDown ==
    /\ Idle
    /\ game_state = "betting"
    /\ bet' = Max(bet - BetStep, StartBet)
    /\ UNCHANGED <<deck, player_hand, dealer_hand, game_state, credits,
                   running_count, true_count, draws, sim, probe>>

KeyH ==
    /\ Idle
    /\ game_state = "playing"
    /\ \E a \in ShuffleMuls(ShoeSize), b \in ShuffleOffs(ShoeSize) :
          LET s1 == draw_card(Fields, TRUE, a, b)
          IN  /\ Store(s1)
              /\ IF calculate_hand_value(s1.player_hand) > 21
                 THEN /\ credits' = credits - bet
                      /\ game_state' = "game_over"
                 ELSE UNCHANGED <<credits, game_state>>
    /\ InWindow(credits')
    /\ UNCHANGED <<bet, sim, probe>>

KeyS ==
    /\ Idle
    /\ game_state = "playing"
    /\ \E a \in ShuffleMuls(ShoeSize), b \in ShuffleOffs(ShoeSize) :
          LET s1 == dealer_turn(Fields, a, b)
              player_value == calculate_hand_value(s1.player_hand)
              dealer_value == calculate_hand_value(s1.dealer_hand)
          IN  /\ Store(s1)
              /\ credits' = IF dealer_value > 21 \/ player_value > dealer_value
                            THEN credits + bet
                            ELSE credits - bet
    /\ InWindow(credits')
    /\ game_state' = "game_over"
    /\ UNCHANGED <<bet, sim, probe>>

---------------------------------------------------------------------------
(* calculate_detailed_probability, run by every rendered frame that shows  *)
(* a player hand (draw_probability_panel).                                 *)

NoOutcomes == [bust |-> 0, win |-> 0, push |-> 0, lose |-> 0]

Tally(o, k) == [o EXCEPT ![k] = @ + 1]

\* [card for card in self.deck if card not in excluded]: the deck's cards equal
\* to no excluded card, in deck order
Available(d, excluded) ==
    LET Kept(card) == card \notin Range(excluded)
    IN  SelectSeq(d, Kept)

\* random.choice(cards): the positions the random source is taken to return
Choices(cards) == {cards[i] : i \in {j \in DOMAIN cards : j <= MaxPick}}

\* player_value > 21: the early return, no trial runs
SimBust ==
    /\ Idle
    /\ player_hand # <<>>
    /\ calculate_hand_value(player_hand) > 21
    /\ probs' = [bust |-> Simulations, win |-> 0, push |-> 0, lose |-> 0]
    /\ sim_pc' = "returned"
    /\ UNCHANGED <<game, trial, temp_hand, temp_dealer, available_cards,
                   outcomes, probe>>

SimBegin ==
    /\ Idle
    /\ player_hand # <<>>
    /\ calculate_hand_value(player_hand) <= 21
    /\ outcomes' = NoOutcomes
    /\ trial' = 0
    /\ sim_pc' = "trial"
    /\ UNCHANGED <<game, temp_hand, temp_dealer, available_cards, probs, probe>>

\* mutant: temp_hand is the player hand itself, not a copy of it
SimPlayerDraw_Aliased ==
    /\ sim_pc = "trial"
    /\ trial < Simulations
    /\ LET available == Available(deck, player_hand \o dealer_hand)
           drawn == IF game_state = "playing" /\ available # <<>>
                    THEN {Append(player_hand, c) : c \in Choices(available)}
                    ELSE {player_hand}
       IN  \E h \in drawn :
              IF calculate_hand_value(h) > 21
              THEN /\ outcomes' = Tally(outcomes, "bust")
                   /\ trial' = trial + 1
                   /\ UNCHANGED <<sim_pc, temp_hand, temp_dealer,
                                  available_cards, player_hand>>
              ELSE /\ temp_hand' = h
                   /\ player_hand' = h
                   /\ temp_dealer' = dealer_hand
                   /\ available_cards' = IF game_state = "playing"
                                         THEN available ELSE <<>>
                   /\ sim_pc' = "dealer"
                   /\ UNCHANGED <<outcomes, trial>>
    /\ UNCHANGED <<deck, dealer_hand, game_state, credits, bet, running_count,
                   true_count, draws, probs, probe>>

\* one trial up to the dealer loop: the hypothetical player card (the locals
\* temp_hand, temp_dealer and available_cards are empty between trials, where
\* the code never reads them before assigning them again)
SimPlayerDraw ==
    /\ sim_pc = "trial"
    /\ trial < Simulations
    /\ LET available == Available(deck, player_hand \o dealer_hand)
           drawn == IF game_state = "playing" /\ available # <<>>
                    THEN {Append(player_hand, c) : c \in Choices(available)}
                    ELSE {player_hand}
       IN  \E h \in drawn :
              IF calculate_hand_value(h) > 21
              THEN /\ outcomes' = Tally(outcomes, "bust")
                   /\ trial' = trial + 1
                   /\ UNCHANGED <<sim_pc, temp_hand, temp_dealer,
                                  available_cards>>
              ELSE /\ temp_hand' = h
                   /\ temp_dealer' = dealer_hand
                   /\ available_cards' = IF game_state = "playing"
                                         THEN available ELSE <<>>
                   /\ sim_pc' = "dealer"
                   /\ UNCHANGED <<outcomes, trial>>
    /\ UNCHANGED <<game, probs, probe>>

\* mutant: the dealer's pool leaves out the real hands only
SimDealerDraw_Replacing ==
    /\ sim_pc = "dealer"
    /\ calculate_hand_value(temp_dealer) < DealerStandsAt
    /\ LET available == Available(deck, player_hand \o dealer_hand)
       IN  /\ available_cards' = available
           /\ IF available # <<>>
              THEN \E c \in Choices(available) :
                      temp_dealer' = Append(temp_dealer, c)
              ELSE UNCHANGED temp_dealer
    /\ UNCHANGED <<game, sim_pc, trial, temp_hand, outcomes, probs, probe>>

\* one iteration of the dealer loop
SimDealerDraw ==
    /\ sim_pc = "dealer"
    /\ calculate_hand_value(temp_dealer) < DealerStandsAt
    /\ LET available == Available(deck, temp_hand \o temp_dealer)
       IN  /\ available_cards' = available
           /\ IF available # <<>>
              THEN \E c \in Choices(available) :
                      temp_dealer' = Append(temp_dealer, c)
              ELSE UNCHANGED temp_dealer
    /\ UNCHANGED <<game, sim_pc, trial, temp_hand, outcomes, probs, probe>>

\* the dealer loop has ended: the trial's tally
SimTally ==
    /\ sim_pc = "dealer"
    /\ calculate_hand_value(temp_dealer) >= DealerStandsAt
    /\ LET temp_value == calculate_hand_value(temp_hand)
           dealer_value == calculate_hand_value(temp_dealer)
       IN  outcomes' = Tally(outcomes,
                             IF dealer_value > 21 THEN "win"
                             ELSE IF temp_value > dealer_value THEN "win"
                             ELSE IF temp_value = dealer_value THEN "push"
                             ELSE "lose")
    /\ trial' = trial + 1
    /\ sim_pc' = "trial"
    /\ temp_hand' = <<>>
    /\ temp_dealer' = <<>>
    /\ available_cards' = <<>>
    /\ UNCHANGED <<game, probs, probe>>

\* all trials ran: the distribution is returned
SimReturn ==
    /\ sim_pc = "trial"
    /\ trial = Simulations
    /\ probs' = outcomes
    /\ sim_pc' = "returned"
    /\ outcomes' = NoOutcomes
    /\ trial' = 0
    /\ UNCHANGED <<game, temp_hand, temp_dealer, available_cards, probe>>

\* the frame is drawn from the returned distribution and ends
FrameEnd ==
    /\ sim_pc = "returned"
    /\ sim_pc' = "idle"
    /\ probs' = NoOutcomes
    /\ UNCHANGED <<game, trial, temp_hand, temp_dealer, available_cards,
                   outcomes, probe>>

---------------------------------------------------------------------------
(* The game loop.                                                          *)

NoProbe == [op |-> "none"]

Init ==
    /\ \E a \in ShuffleMuls(ShoeSize), b \in ShuffleOffs(ShoeSize) :
          deck = create_deck(<<>>, NumDecks, a, b)
    /\ player_hand = <<>>
    /\ dealer_hand = <<>>
    /\ game_state = "betting"
    /\ credits = StartCredits
    /\ bet = StartBet
    /\ running_count = 0
    /\ true_count = Zero
    /\ sim_pc = "idle"
    /\ trial = 0
    /\ temp_hand = <<>>
    /\ temp_dealer = <<>>
    /\ available_cards = <<>>
    /\ outcomes = NoOutcomes
    /\ probs = NoOutcomes
    /\ draws = <<>>
    /\ probe = NoProbe

Next ==
    \/ KeySpace
    \/ KeyUp
    \/ KeyDown
    \/ KeyH
    \/ KeyS
    \/ SimBust
    \/ SimBegin
    \/ SimPlayerDraw
    \/ SimDealerDraw
    \/ SimTally
    \/ SimReturn
    \/ FrameEnd

Spec == Init /\ [][Next]_vars

---------------------------------------------------------------------------
(* Single calls of the pure operations: one call per behaviour, made on    *)
(* the freshly constructed object.                                         *)

UnitCards == {Card(Ranks[i], Suits[1]) : i \in DOMAIN Ranks}

UnitHands == UNION {[1..n -> UnitCards] : n \in 0..MaxHandLen}

DeckCounts == {-2, -1, 0, 1}

CallHandValue ==
    /\ probe = NoProbe
    /\ \E h \in UnitHands :
          probe' = [op |-> "calculate_hand_value", hand |-> h,
                    result |-> calculate_hand_value(h)]
    /\ UNCHANGED <<game, sim>>

CallOptimalAction ==
    /\ probe = NoProbe
    /\ \E h \in UnitHands, up \in UnitCards :
          probe' = [op |-> "get_optimal_action", hand |-> h, dealer |-> <<up>>,
                    result |-> get_optimal_action(h, <<up>>)]
    /\ UNCHANGED <<game, sim>>

\* create_deck(n) on the constructed object: the cards are appended to the deck
\* present and the whole deck is shuffled; it has no raise statement, so it
\* returns for every n
CallCreateDeck ==
    /\ probe = NoProbe
    /\ \E n \in DeckCounts :
       \E a \in ShuffleMuls(Len(deck) + Len(FreshCards(n))),
          b \in ShuffleOffs(Len(deck) + Len(FreshCards(n))) :
          /\ deck' = create_deck(deck, n, a, b)
          /\ probe' = [op |-> "create_deck", num_decks |-> n,
                       raised |-> "nothing"]
    /\ UNCHANGED <<player_hand, dealer_hand, game_state, credits, bet,
                   running_count, true_count, draws, sim>>

NextUnit ==
    \/ CallHandValue
    \/ CallOptimalAction
    \/ CallCreateDeck

InitUnit == Init /\ deck = create_deck(<<>>, NumDecks, 1, 0)

SpecUnit == InitUnit /\ [][NextUnit]_vars

---------------------------------------------------------------------------
(* Properties.                                                             *)

\* the valuation of spec 4.2: every Ace 11, then 10 off per Ace while over 21
RECURSIVE Demote(_, _)
Demote(total, aces) ==
    IF total > 21 /\ aces > 0 THEN Demote(total - 10, aces - 1) ELSE total

GreatestLegalValue(hand) ==
    Demote(NonAceSum(hand) + 11 * AceCount(hand), AceCount(hand))

\* an Ace of the hand is counted as 11 in the value the code gives the hand
CountsAnAceAs11(hand) ==
    /\ AceCount(hand) > 0
    /\ calculate_hand_value(hand) = NonAceSum(hand) + AceCount(hand) + 10

HardRule(total, up) ==
    IF total >= 17 THEN "Stand"
    ELSE IF total <= 11 THEN "Hit"
    ELSE IF up < 7 THEN "Stand" ELSE "Hit"

\* the Hi-Lo tag of a card, by point value (spec 4.3)
HiLoTag(card) ==
    IF card.value >= 2 /\ card.value <= 6 THEN 1
    ELSE IF card.value >= 10 THEN -1
    ELSE 0

TagSum(cards) ==
    Cardinality({i \in DOMAIN cards : HiLoTag(cards[i]) = 1})
    - Cardinality({i \in DOMAIN cards : HiLoTag(cards[i]) = -1})

CountOf(cards, rank) == Cardinality({i \in DOMAIN cards : cards[i].rank = rank})

Reverse(q) == [i \in 1..Len(q) |-> q[Len(q) + 1 - i]]

CardsOf(log) == [i \in 1..Len(log) |-> log[i].card]

ToPlayer(log) == LET P(e) == e.for_player IN CardsOf(SelectSeq(log, P))

ToDealer(log) == LET D(e) == ~e.for_player IN CardsOf(SelectSeq(log, D))

\* the hypothetical cards of the running trial, in the order drawn
Hypothetical ==
    SubSeq(temp_hand, Len(player_hand) + 1, Len(temp_hand))
    \o SubSeq(temp_dealer, Len(dealer_hand) + 1, Len(temp_dealer))

SimStep == sim_pc # "idle" \/ sim_pc' # "idle"

\* C1: calculate_hand_value returns, for every hand, the total that counts
\* every Ace as 11 and takes 10 off per Ace while the total exceeds 21.
C1_GreatestLegalValue ==
    probe.op = "calculate_hand_value"
        => probe.result = GreatestLegalValue(probe.hand)

\* C2: a running simulation always goes on to its return: it is never at an
\* iteration of the dealer loop that finds the pool empty below 17, where the
\* iteration changes nothing and the loop condition still holds.
C2_SimulationReturns ==
    ~(/\ sim_pc = "dealer"
      /\ calculate_hand_value(temp_dealer) < DealerStandsAt
      /\ Available(deck, temp_hand \o temp_dealer) = <<>>)

\* C3: a hand that is no pair, totals at most 20 and counts no Ace as 11 gets
\* the hard-hand rule for every dealer up card.
C3_HardRuleWithoutSoftAce ==
    (/\ probe.op = "get_optimal_action"
     /\ ~(Len(probe.hand) = 2 /\ probe.hand[1].rank = probe.hand[2].rank)
     /\ calculate_hand_value(probe.hand) <= 20
     /\ ~CountsAnAceAs11(probe.hand))
        => probe.result = HardRule(calculate_hand_value(probe.hand),
                                   probe.dealer[1].value)

\* C4: whenever draw_card rebuilds the empty shoe, the running count and the
\* true count are 0 at that moment, and after that draw the running count is
\* the Hi-Lo tag of the one card drawn.
C4_CountZeroAtRecreation ==
    \A i \in DOMAIN draws :
        draws[i].recreated =>
            /\ draws[i].count_before = <<0, Zero>>
            /\ draws[i].count_after = HiLoTag(draws[i].card)

C4_Witness ==
    /\ \E i \in DOMAIN draws : draws[i].recreated /\ HiLoTag(draws[i].card) # 0
    /\ \E i \in DOMAIN draws : i > 1 /\ draws[i].recreated

C5_Sizes ==
    /\ Len(deck) \in 0..ShoeSize
    /\ \A i \in DOMAIN draws :
          LET e == draws[i]
          IN  /\ e.size_before \in 0..ShoeSize
              /\ e.recreated <=> (e.size_before = 0)
              /\ e.size_created = IF e.recreated
                                  THEN NumDecks * Len(Suits) * Len(Ranks)
                                  ELSE e.size_before
              /\ e.size_after = e.size_created - 1
    /\ draws # <<>> => Len(deck) = draws[Len(draws)].size_after

C5_Step ==
    deck' # deck =>
        LET cards == CardsOf(draws')
            k == Len(cards)
            n == Len(deck)
        IN  /\ k >= 1
            /\ \A i \in 1..k : i <= n => cards[i] = deck[n + 1 - i]
            /\ k <= n => deck' = SubSeq(deck, 1, n - k)
            /\ k > n =>
                  LET shoe == deck' \o Reverse(SubSeq(cards, n + 1, k))
                  IN  /\ Len(shoe) = NumDecks * CardsPerDeck
                      /\ \A r \in Range(Ranks) :
                            CountOf(shoe, r) = Len(Suits) * NumDecks
                      /\ draws'[n + 1].recreated
            /\ player_hand' \in {player_hand \o ToPlayer(draws'), ToPlayer(draws')}
            /\ dealer_hand' \in {dealer_hand \o ToDealer(draws'), ToDealer(draws')}
            /\ Len(player_hand') + Len(dealer_hand') \in
                  {Len(player_hand) + Len(dealer_hand) + k, k}

\* C5: every draw_card call takes exactly one card off the shoe and appends that
\* card to the target hand; a draw on the empty shoe first rebuilds it to
\* NumDecks*52 cards, 4*NumDecks of each rank, so the shoe size stays within
\* 0..NumDecks*52 and is NumDecks*52 - 1 right after a rebuilding draw.
C5_DrawTakesOneCard == []C5_Sizes /\ [][C5_Step]_vars

C5_Witness ==
    /\ draws # <<>>
    /\ draws[Len(draws)].recreated
    /\ Len(deck) = NumDecks * CardsPerDeck - 1

\* C6: no step of calculate_detailed_probability changes the shoe, the real
\* hands, the counts or the game state.
C6_SimulationFrame ==
    [][SimStep => UNCHANGED <<deck, player_hand, dealer_hand, running_count,
                             true_count, game_state>>]_vars

C6_Witness ==
    /\ sim_pc = "dealer"
    /\ Len(temp_hand) > Len(player_hand)
    /\ Len(temp_dealer) > Len(dealer_hand)

\* C7 as stated: every hypothetical draw of a trial is made from the shoe's
\* cards minus the cards of the real hands, earlier draws of the trial not
\* removed.
C7_SamePoolWithReplacement ==
    (sim_pc = "dealer" /\ Hypothetical # <<>>)
        => available_cards = Available(deck, player_hand \o dealer_hand)

\* C7 amended: the dealer's draws leave out the cards of the trial hands, the
\* hypothetical ones included: the hypothetical cards of a trial are cards of
\* the shoe, equal to no card of the real hands, and no two of them are equal.
C7_NoCardDrawnTwice ==
    sim_pc = "dealer" =>
        /\ \A i \in DOMAIN Hypothetical :
              /\ Hypothetical[i] \in Range(deck)
              /\ Hypothetical[i] \notin Range(player_hand \o dealer_hand)
        /\ \A i, j \in DOMAIN Hypothetical :
              i # j => Hypothetical[i] # Hypothetical[j]

C7_Witness ==
    /\ sim_pc = "dealer"
    /\ Len(temp_hand) > Len(player_hand)
    /\ Len(temp_dealer) >= Len(dealer_hand) + 2

\* the tags of a whole shoe
FullShoeTagSum == TagSum(FreshCards(NumDecks))

\* the cards drawn from the current shoe are the whole shoe without the undrawn
C8_Sum ==
    running_count = FullShoeTagSum - TagSum(deck)

C8_Step ==
    /\ SimStep => running_count' = running_count
    /\ running_count' = running_count
          + (IF deck' # deck THEN TagSum(CardsOf(draws')) ELSE 0)

\* C8: the running count is the sum of the Hi-Lo tags of the cards drawn from
\* the current shoe; each handler changes it by the tags of the cards it deals
\* and the simulator's steps leave it as it is.
C8_CountFollowsDealtCards == []C8_Sum /\ [][C8_Step]_vars

C8_Witness ==
    /\ sim_pc = "returned"
    /\ running_count # 0
    /\ \A t \in {-1, 0, 1} :
          \E i \in DOMAIN (player_hand \o dealer_hand) :
              HiLoTag((player_hand \o dealer_hand)[i]) = t

\* C9: create_deck with num_decks <= 0 does not return normally but fails with
\* InvalidConfig.
C9_RejectsNonPositiveDecks ==
    (probe.op = "create_deck" /\ probe.num_decks <= 0)
        => probe.raised = "InvalidConfig"

\* C10: a stand that ends with the dealer's total equal to the player's,
\* neither bust, leaves the credits as they were.
C10_PushReturnsWager ==
    [][(/\ game_state = "playing"
        /\ game_state' = "game_over"
        /\ calculate_hand_value(player_hand') <= 21
        /\ calculate_hand_value(dealer_hand') = calculate_hand_value(player_hand'))
            => credits' = credits]_vars

=============================================================================
